---- MODULE Spec2Model ----
(***************************************************************************)
(* Model of src/src/client.rs: the Dataverse client's request pipeline     *)
(* (Client::request), its URL builders, the public operations built on     *)
(* them, the response handlers and Page.                                   *)
(*                                                                         *)
(* A call of a public operation is a future with two suspension points:    *)
(* `self.auth.get_valid_token().await` and `.send().await`.  A call is     *)
(* therefore modelled by three actions: the invocation (everything up to   *)
(* the first await), TokenResolved (the code between the two awaits) and   *)
(* SendResolved (the code after the second await, i.e. the response        *)
(* consumer).                                                              *)
(***************************************************************************)
EXTENDS Integers, Sequences, FiniteSets, TLC

(***************************************************************************)
(* Text.  URLs, header names and bodies are TLA+ strings joined with \o.   *)
(* The OData-EntityId header value, which the code scans with a regular    *)
(* expression, is a sequence of one-character strings.                     *)
(***************************************************************************)
RECURSIVE Concat(_)
Concat(chars) ==
    IF chars = <<>> THEN "" ELSE Head(chars) \o Concat(Tail(chars))

Rep(x, n) == [i \in 1..n |-> x]

LowerHex == <<"0","1","2","3","4","5","6","7","8","9","a","b","c","d","e","f">>
UpperHex == <<"0","1","2","3","4","5","6","7","8","9","A","B","C","D","E","F">>

\* the character class [0-9a-f]: upper-case digits forgotten
IsLowerHexDigit(ch) == \E v \in 1..16 : LowerHex[v] = ch

\* the character class [0-9a-fA-F] of UUID_REGEX
IsHexDigit(ch) ==
    \E v \in 1..16 : LowerHex[v] = ch \/ UpperHex[v] = ch

HexValue(ch) ==
    (CHOOSE v \in 1..16 : LowerHex[v] = ch \/ UpperHex[v] = ch) - 1

\* the group lengths of UUID_REGEX: {8}-{4}-{4}-{4}-{12}
UUID_GROUPS == <<8, 4, 4, 4, 12>>

RECURSIVE SumTo(_, _)
SumTo(seq, n) == IF n = 0 THEN 0 ELSE seq[n] + SumTo(seq, n - 1)

\* length of a text the pattern matches, and the offsets of its hyphens
UuidTextLen == SumTo(UUID_GROUPS, Len(UUID_GROUPS)) + Len(UUID_GROUPS) - 1
HyphenOffsets ==
    { SumTo(UUID_GROUPS, g) + g : g \in 1..(Len(UUID_GROUPS) - 1) }

\* does the pattern match the text at position i (1-based)?
MatchesAt(text, i) ==
    /\ i >= 1
    /\ i + UuidTextLen - 1 <= Len(text)
    /\ \A k \in 1..UuidTextLen :
         IF k \in HyphenOffsets
         THEN text[i + k - 1] = "-"
         ELSE IsHexDigit(text[i + k - 1])

NoMatch == <<"no match">>

\* Regex::find: the leftmost match, or None
UUID_REGEX_find(text) ==
    IF \E i \in 1..Len(text) : MatchesAt(text, i)
    THEN LET i == CHOOSE j \in 1..Len(text) :
                    /\ MatchesAt(text, j)
                    /\ \A h \in 1..(j - 1) : ~MatchesAt(text, h)
         IN  SubSeq(text, i, i + UuidTextLen - 1)
    ELSE NoMatch

(***************************************************************************)
(* Uuid: a 128-bit value, here its 32 nibbles, most significant first.     *)
(***************************************************************************)
UuidNibbles == SumTo(UUID_GROUPS, Len(UUID_GROUPS))

\* the nibble index that the k-th character of the hyphenated form shows
NibbleAt(k) == k - Cardinality({h \in HyphenOffsets : h < k})

\* Uuid::as_hyphenated as characters: lower-case digits, 8-4-4-4-12
HyphenatedChars(id) ==
    [k \in 1..UuidTextLen |->
        IF k \in HyphenOffsets THEN "-" ELSE LowerHex[id[NibbleAt(k)] + 1]]

as_hyphenated(id) == Concat(HyphenatedChars(id))

ParseError == <<"uuid parse error">>

\* Uuid::parse_str on a hyphenated text: accepts either case of digit
Uuid_parse_str(text) ==
    IF Len(text) = UuidTextLen /\ MatchesAt(text, 1)
    THEN [n \in 1..UuidNibbles |->
            HexValue(text[CHOOSE k \in 1..UuidTextLen :
                            k \notin HyphenOffsets /\ NibbleAt(k) = n])]
    ELSE ParseError

\* the same digits written in upper case
UpperChars(id) ==
    [k \in 1..UuidTextLen |->
        IF k \in HyphenOffsets THEN "-" ELSE UpperHex[id[NibbleAt(k)] + 1]]

(***************************************************************************)
(* Bounds of the model.                                                    *)
(***************************************************************************)
\* longest run of extra hex digits put around an embedded UUID
MaxPad == 1
\* most records the platform holds for a query
MaxRecords == 3
\* largest page size the platform applies
MaxPageSize == 2

(***************************************************************************)
(* The client handle (struct Client) and its constructors.                 *)
(***************************************************************************)
VERSION == "9.2"

\* reqwest::Client::builder().https_only(true).connect_timeout(..).timeout(..)
Backend == [https_only |-> TRUE, connect_timeout_s |-> 120, timeout_s |-> 120]

Client_new(url, backend, auth) == [url |-> url, backend |-> backend, auth |-> auth]

with_client_secret_auth(url) == Client_new(url, Backend, "ClientSecretAuth")

new_dummy == Client_new("", Backend, "NoAuth")

BaseUrls == {"https://instance.crm.dynamics.com/", "https://instance.crm.dynamics.com"}

Clients == {with_client_secret_auth(u) : u \in BaseUrls} \cup {new_dummy}

(***************************************************************************)
(* Caller-supplied values.                                                 *)
(***************************************************************************)
Id1 == Rep(1, 8) \o Rep(2, 4) \o Rep(3, 4) \o Rep(4, 4) \o Rep(5, 12)
Id2 == Rep(10, 8) \o Rep(11, 4) \o Rep(12, 4) \o Rep(13, 4) \o Rep(14, 12)

ReferenceStruct_new(entity_name, entity_id) ==
    [entity_name |-> entity_name, entity_id |-> entity_id]

References ==
    {ReferenceStruct_new("contacts", Id1), ReferenceStruct_new("accounts", Id2)}

\* a WriteEntity: its reference and what serde_json::to_vec makes of it
WriteEntities ==
    { [reference |-> ReferenceStruct_new("contacts", Id1),
       serialisable |-> TRUE, json |-> "{\"firstname\":\"Testy\"}"],
      [reference |-> ReferenceStruct_new("accounts", Id2),
       serialisable |-> TRUE, json |-> "{\"name\":\"Contoso\"}"],
      [reference |-> ReferenceStruct_new("contacts", Id1),
       serialisable |-> FALSE, json |-> ""] }

\* E::get_columns() of the ReadEntity types the caller may name
ColumnLists ==
    { <<>>, <<"name">>, <<"contactid", "firstname", "lastname">>, <<"a", "b", "a">> }

\* a Query, by what its Display implementation renders
Queries == { "contacts?$top=2", "accounts?$filter=name eq 'x'" }

\* a Batch, by get_batch_id() and to_string()
Batches ==
    { [batch_id |-> "b1", text |-> "--batch_b1 (1 operation)", operations |-> 1],
      [batch_id |-> "b2", text |-> "--batch_b2 (1001 operations)", operations |-> 1001] }

MergeEntityNames == {"account", "systemuser"}

(***************************************************************************)
(* URL builders (Client::build_*_url).                                     *)
(***************************************************************************)
build_simple_url(self, table_name) ==
    self.url \o "api/data/v" \o VERSION \o "/" \o table_name

\* a builder that writes the id without its hyphens
build_targeted_url_simple_id(self, table_name, target_id) ==
    self.url \o "api/data/v" \o VERSION \o "/" \o table_name
        \o "(" \o Concat([n \in 1..UuidNibbles |-> LowerHex[target_id[n] + 1]]) \o ")"

build_targeted_url(self, table_name, target_id) ==
    self.url \o "api/data/v" \o VERSION \o "/" \o table_name
        \o "(" \o as_hyphenated(target_id) \o ")"

\* a loop that pushes the comma after each column
RECURSIVE SelectFrom_comma_after(_, _, _)
SelectFrom_comma_after(columns, select, comma_required) ==
    IF columns = <<>> THEN select
    ELSE SelectFrom_comma_after(Tail(columns), select \o Head(columns) \o ",", TRUE)

\* the loop that joins the columns: a comma before every column but the first
RECURSIVE SelectFrom(_, _, _)
SelectFrom(columns, select, comma_required) ==
    IF columns = <<>> THEN select
    ELSE SelectFrom(Tail(columns),
                    (IF comma_required THEN select \o "," ELSE select) \o Head(columns),
                    TRUE)

build_retrieve_url(self, table_name, target_id, columns) ==
    self.url \o "api/data/v" \o VERSION \o "/" \o table_name
        \o "(" \o as_hyphenated(target_id) \o ")"
        \o "?$select=" \o SelectFrom(columns, "", FALSE)

build_query_url(self, columns, query) ==
    self.url \o "api/data/v" \o VERSION \o "/" \o query
        \o "&$select=" \o SelectFrom(columns, "", FALSE)

(***************************************************************************)
(* reqwest::RequestBuilder, as far as the client uses it.                  *)
(***************************************************************************)
NoBody == [kind |-> "none"]
Bytes(text) == [kind |-> "bytes", text |-> text]

backend_request(method, url) ==
    [method |-> method, url |-> url, headers |-> <<>>, body |-> NoBody]

\* RequestBuilder::header appends the header to those already set
header(rb, name, value) == [rb EXCEPT !.headers = Append(@, <<name, value>>)]

bearer_auth(rb, token) == header(rb, "Authorization", "Bearer " \o token)

body(rb, content) == [rb EXCEPT !.body = content]

(***************************************************************************)
(* Results.  An error is a DataverseError; its kind is the error taxonomy  *)
(* of the specification, its message is the text the code gives it.        *)
(***************************************************************************)
Ok(value) == [ok |-> TRUE, value |-> value]

DataverseError_new(kind, message) == [ok |-> FALSE, kind |-> kind, message |-> message]

\* IntoDataverseResult: the kind of a foreign error, by the library it is from
into_dataverse_result(origin, message) ==
    DataverseError_new(
        CASE origin = "serde_json::to_vec"    -> "EncodingError"
          [] origin = "serde_json::from_slice" -> "DecodingError"
          [] origin = "reqwest"                -> "TransportError"
          [] origin = "uuid"                   -> "ProtocolViolation",
        message)

Unit == [unit |-> TRUE]


None == [some |-> FALSE]
Some(v) == [some |-> TRUE, value |-> v]

(***************************************************************************)
(* reqwest::Response, as far as the handlers read it: the status, the      *)
(* OData-EntityId header and the body.                                     *)
(***************************************************************************)
\* StatusCode::is_client_error / is_server_error
is_client_error(status) == status >= 400 /\ status < 500
is_server_error(status) == status >= 500 /\ status < 600

\* a byte outside visible ASCII, which HeaderValue::to_str rejects
OpaqueByte == "<E9>"

\* a lossy reading that drops the bytes to_str rejects
to_str_lossy(value) ==
    IF \E i \in 1..Len(value) : value[i] = OpaqueByte
    THEN SelectSeq(value, LAMBDA ch : ch # OpaqueByte)
    ELSE value

\* HeaderValue::to_str(..).unwrap_or("")
to_str_or_empty(value) ==
    IF \E i \in 1..Len(value) : value[i] = OpaqueByte THEN <<>> ELSE value

\* Response::text() / Response::bytes(): the body, unless reading it fails
UnreadableBody == [readable |-> FALSE, text |-> "", json |-> [type |-> "invalid"]]
TextBody(text) == [readable |-> TRUE, text |-> text, json |-> [type |-> "invalid"]]
JsonBody(text, fields) ==
    [readable |-> TRUE, text |-> text, json |-> [type |-> "object", fields |-> fields]]

NO_ERROR_DETAILS == "no error details provided from server"

\* response.text().await.unwrap_or_else(|_| String::from(..))
error_message(response) ==
    IF response.body.readable THEN response.body.text ELSE NO_ERROR_DETAILS

\* the entity decoder of a ReadEntity type (serde, outside this file)
EntityDecodable(json) == json.type = "object" /\ "id" \in DOMAIN json.fields
decode_entity(json) == [id |-> json.fields["id"]]

\* #[derive(Deserialize)] struct RetrieveMultipleResult<E>
RetrieveMultipleResultDecodable(json) ==
    /\ json.type = "object"
    /\ "value" \in DOMAIN json.fields
    /\ json.fields["value"].type = "array"
    /\ \A i \in 1..Len(json.fields["value"].items) :
          EntityDecodable(json.fields["value"].items[i])
    /\ "@odata.nextLink" \in DOMAIN json.fields
          => json.fields["@odata.nextLink"].type \in {"string", "null"}

RetrieveMultipleResult(json) ==
    [entities |-> [i \in 1..Len(json.fields["value"].items) |->
                      decode_entity(json.fields["value"].items[i])],
     next_link |->
        IF "@odata.nextLink" \in DOMAIN json.fields
             /\ json.fields["@odata.nextLink"].type = "string"
        THEN Some(json.fields["@odata.nextLink"].text)
        ELSE None]

(***************************************************************************)
(* Page.                                                                   *)
(***************************************************************************)
\* a constructor that loses the continuation link
Page_new_without_link(entities, next_link) == [entities |-> entities, next_link |-> None]

Page_new(entities, next_link) == [entities |-> entities, next_link |-> next_link]

is_incomplete(page) == page.next_link.some

(***************************************************************************)
(* The response consumers.  Each yields the operation's result and the     *)
(* steps it ran, in order.                                                 *)
(***************************************************************************)
Handled(result, steps) == [result |-> result, steps |-> steps]

\* a handler that takes only the 4xx range for a failure
handle_empty_response_4xx_only(response) ==
    IF is_client_error(response.status)
    THEN Handled(DataverseError_new("ServerError", error_message(response)),
                 <<"status", "error_text">>)
    ELSE Handled(Ok(Unit), <<"status">>)

\* a handler that reads the body of a successful response for reported failures
handle_empty_response_reads_body(response) ==
    IF is_client_error(response.status) \/ is_server_error(response.status)
    THEN Handled(DataverseError_new("ServerError", error_message(response)),
                 <<"status", "error_text">>)
    ELSE IF response.body.readable /\ response.body.text # ""
         THEN Handled(DataverseError_new("ServerError", response.body.text),
                      <<"status", "bytes">>)
         ELSE Handled(Ok(Unit), <<"status">>)

handle_empty_response(response) ==
    IF is_client_error(response.status) \/ is_server_error(response.status)
    THEN Handled(DataverseError_new("ServerError", error_message(response)),
                 <<"status", "error_text">>)
    ELSE Handled(Ok(Unit), <<"status">>)

NO_UUID == "Dataverse provided no Uuid"

create_handle_response(response) ==
    IF is_client_error(response.status) \/ is_server_error(response.status)
    THEN Handled(DataverseError_new("ServerError", error_message(response)),
                 <<"status", "error_text">>)
    ELSE IF ~response.entity_id.some
    THEN Handled(DataverseError_new("ProtocolViolation", NO_UUID),
                 <<"status", "header">>)
    ELSE LET uuid_segment == UUID_REGEX_find(to_str_or_empty(response.entity_id.value))
         IN  IF uuid_segment = NoMatch
             THEN Handled(DataverseError_new("ProtocolViolation", NO_UUID),
                          <<"status", "header", "find">>)
             ELSE LET id == Uuid_parse_str(uuid_segment)
                  IN  Handled(IF id = ParseError
                              THEN into_dataverse_result("uuid", "invalid uuid")
                              ELSE Ok(id),
                              <<"status", "header", "find", "parse">>)

retrieve_handle_response(response) ==
    IF is_client_error(response.status) \/ is_server_error(response.status)
    THEN Handled(DataverseError_new("ServerError", error_message(response)),
                 <<"status", "error_text">>)
    ELSE IF ~response.body.readable
    THEN Handled(into_dataverse_result("reqwest", "error decoding response body"),
                 <<"status", "bytes">>)
    ELSE IF ~EntityDecodable(response.body.json)
    THEN Handled(into_dataverse_result("serde_json::from_slice", "invalid entity"),
                 <<"status", "bytes", "decode">>)
    ELSE Handled(Ok(decode_entity(response.body.json)),
                 <<"status", "bytes", "decode">>)

retrieve_multiple_handle_response(response) ==
    IF is_client_error(response.status) \/ is_server_error(response.status)
    THEN Handled(DataverseError_new("ServerError", error_message(response)),
                 <<"status", "error_text">>)
    ELSE IF ~response.body.readable
    THEN Handled(into_dataverse_result("reqwest", "error decoding response body"),
                 <<"status", "bytes">>)
    ELSE IF ~RetrieveMultipleResultDecodable(response.body.json)
    THEN Handled(into_dataverse_result("serde_json::from_slice", "invalid result"),
                 <<"status", "bytes", "decode">>)
    ELSE LET result == RetrieveMultipleResult(response.body.json)
         IN  Handled(Ok(Page_new(result.entities, result.next_link)),
                     <<"status", "bytes", "decode">>)

retrieve_next_page_handle_response(response) ==
    IF is_client_error(response.status) \/ is_server_error(response.status)
    THEN Handled(DataverseError_new("ServerError", error_message(response)),
                 <<"status", "error_text">>)
    ELSE IF ~response.body.readable
    THEN Handled(into_dataverse_result("reqwest", "error decoding response body"),
                 <<"status", "bytes">>)
    ELSE IF ~RetrieveMultipleResultDecodable(response.body.json)
    THEN Handled(into_dataverse_result("serde_json::from_slice", "invalid result"),
                 <<"status", "bytes", "decode">>)
    ELSE LET result == RetrieveMultipleResult(response.body.json)
         IN  Handled(Ok(Page_new(result.entities, result.next_link)),
                     <<"status", "bytes", "decode">>)


(***************************************************************************)
(* The closures the operations hand to Client::request as                  *)
(* request_preparer.                                                       *)
(***************************************************************************)
\* serde_json::to_vec(entity).into_dataverse_result()
to_vec(entity) ==
    IF entity.serialisable
    THEN Ok(Bytes(entity.json))
    ELSE into_dataverse_result("serde_json::to_vec", "entity cannot be serialised")

create_preparer(entity, rb) ==
    LET encoded == to_vec(entity)
    IN  IF encoded.ok
        THEN Ok(body(header(rb, "Content-Type", "application/json"), encoded.value))
        ELSE encoded

update_preparer(entity, rb) ==
    LET encoded == to_vec(entity)
    IN  IF encoded.ok
        THEN Ok(body(header(header(rb, "Content-Type", "application/json"),
                            "If-Match", "*"),
                     encoded.value))
        ELSE encoded

\* an upsert that asserts the overwrite like update does
upsert_preparer_overwrite(entity, rb) ==
    LET encoded == to_vec(entity)
    IN  IF encoded.ok
        THEN Ok(body(header(header(rb, "Content-Type", "application/json"),
                            "If-Match", "*"),
                     encoded.value))
        ELSE encoded

upsert_preparer(entity, rb) ==
    LET encoded == to_vec(entity)
    IN  IF encoded.ok
        THEN Ok(body(header(rb, "Content-Type", "application/json"), encoded.value))
        ELSE encoded

\* move |request| Ok(request)
plain_preparer(rb) == Ok(rb)

execute_preparer(batch, rb) ==
    Ok(body(header(rb, "Content-Type",
                   "multipart/mixed; boundary=batch_" \o batch.batch_id),
            Bytes(batch.text)))

\* MergeRequest::new(&entity_name, target, subordinate, false), serialised
MergeRequest_json(entity_name, target, subordinate, cascade) ==
    "{\"Target\":{\"@odata.type\":\"Microsoft.Dynamics.CRM." \o entity_name
        \o "\",\"id\":\"" \o as_hyphenated(target)
        \o "\"},\"Subordinate\":{\"@odata.type\":\"Microsoft.Dynamics.CRM." \o entity_name
        \o "\",\"id\":\"" \o as_hyphenated(subordinate)
        \o "\"},\"PerformParentingChecks\":" \o (IF cascade THEN "true" ELSE "false")
        \o "}"

merge_preparer(arg, rb) ==
    Ok(body(header(rb, "Content-Type", "application/json"),
            Bytes(MergeRequest_json(arg.entity_name, arg.target, arg.subordinate, FALSE))))

request_preparer(call, rb) ==
    CASE call.op = "create"  -> create_preparer(call.arg, rb)
      [] call.op = "update"  -> update_preparer(call.arg, rb)
      [] call.op = "upsert"  -> upsert_preparer(call.arg, rb)
      [] call.op = "execute" -> execute_preparer(call.arg, rb)
      [] call.op = "merge"   -> merge_preparer(call.arg, rb)
      [] OTHER               -> plain_preparer(rb)

response_consumer(call, response) ==
    CASE call.op = "create"             -> create_handle_response(response)
      [] call.op = "retrieve"           -> retrieve_handle_response(response)
      [] call.op = "retrieve_multiple"  -> retrieve_multiple_handle_response(response)
      [] call.op = "retrieve_next_page" -> retrieve_next_page_handle_response(response)
      [] OTHER                          -> handle_empty_response(response)

(***************************************************************************)
(* Client::request, cut at its two awaits.  A call in flight is a record:  *)
(*   pc        "token" (awaiting get_valid_token), "sent" (awaiting send), *)
(*             "done" (returned)                                           *)
(*   op, arg   the public operation and its argument                       *)
(*   method, url   the arguments given to Client::request                  *)
(*   steps     the steps run so far, in order                              *)
(*   token, request, response, result   Some(..) once they exist           *)
(***************************************************************************)
Idle == [pc |-> "idle"]

\* up to `self.auth.get_valid_token().await`
request(op, arg, method, url) ==
    [pc |-> "token", op |-> op, arg |-> arg, method |-> method, url |-> Some(url),
     steps |-> <<>>, token |-> None, request |-> None, response |-> None,
     result |-> None]

Returned(call, result, steps) ==
    [call EXCEPT !.pc = "done", !.result = Some(result), !.steps = @ \o steps]

\* a pipeline that forgets the OData-Version header
standard_headers_without_version(rb, token) ==
    header(header(bearer_auth(rb, token),
                  "OData-MaxVersion", "4.0"),
           "Accept", "application/json")

\* the four headers Client::request attaches before sending
standard_headers(rb, token) ==
    header(header(header(bearer_auth(rb, token),
                         "OData-MaxVersion", "4.0"),
                  "OData-Version", "4.0"),
           "Accept", "application/json")

\* a pipeline that runs the preparer before it looks at the token's outcome
request_after_token_prepare_first(self, call, token) ==
    LET prepared == request_preparer(call, backend_request(call.method, call.url.value))
    IN  IF ~prepared.ok
        THEN Returned(call, prepared, <<"build", "prepare", "token">>)
        ELSE IF ~token.ok
        THEN Returned(call, token, <<"build", "prepare", "token">>)
        ELSE [call EXCEPT !.pc = "sent",
                          !.token = Some(token.value),
                          !.request = Some(standard_headers(prepared.value, token.value)),
                          !.steps = @ \o <<"build", "prepare", "token", "headers", "send">>]

\* a pipeline that attaches the fixed headers before it runs the preparer
request_after_token_headers_first(self, call, token) ==
    IF ~token.ok
    THEN Returned(call, token, <<"token">>)
    ELSE LET prepared ==
                request_preparer(call,
                    standard_headers(backend_request(call.method, call.url.value),
                                     token.value))
         IN  IF ~prepared.ok
             THEN Returned([call EXCEPT !.token = Some(token.value)], prepared,
                           <<"token", "build", "headers", "prepare">>)
             ELSE [call EXCEPT !.pc = "sent",
                               !.token = Some(token.value),
                               !.request = Some(prepared.value),
                               !.steps = @ \o <<"token", "build", "headers", "prepare", "send">>]

\* from the token's arrival up to `.send().await`
request_after_token(self, call, token) ==
    IF ~token.ok
    THEN Returned(call, token, <<"token">>)
    ELSE LET prepared == request_preparer(call, backend_request(call.method, call.url.value))
         IN  IF ~prepared.ok
             THEN Returned([call EXCEPT !.token = Some(token.value)], prepared,
                           <<"token", "build", "prepare">>)
             ELSE [call EXCEPT !.pc = "sent",
                               !.token = Some(token.value),
                               !.request = Some(standard_headers(prepared.value, token.value)),
                               !.steps = @ \o <<"token", "build", "prepare", "headers", "send">>]

\* a pipeline that starts over when the transport fails
request_after_send_retry(call, sent) ==
    IF ~sent.ok
    THEN [call EXCEPT !.pc = "token"]
    ELSE LET handled == response_consumer(call, sent.value)
         IN  Returned([call EXCEPT !.response = Some(sent.value)], handled.result,
                      <<"interpret">> \o handled.steps)

\* from the arrival of send's outcome to the return
request_after_send(call, sent) ==
    IF ~sent.ok
    THEN Returned(call, sent, <<>>)
    ELSE LET handled == response_consumer(call, sent.value)
         IN  Returned([call EXCEPT !.response = Some(sent.value)], handled.result,
                      <<"interpret">> \o handled.steps)

(***************************************************************************)
(* The public operations, up to their first await.                         *)
(***************************************************************************)
create(self, entity) ==
    request("create", entity, "POST",
            build_simple_url(self, entity.reference.entity_name))

update(self, entity) ==
    request("update", entity, "PATCH",
            build_targeted_url(self, entity.reference.entity_name,
                               entity.reference.entity_id))

upsert(self, entity) ==
    request("upsert", entity, "PATCH",
            build_targeted_url(self, entity.reference.entity_name,
                               entity.reference.entity_id))

delete(self, reference) ==
    request("delete", reference, "DELETE",
            build_targeted_url(self, reference.entity_name, reference.entity_id))

retrieve(self, columns, reference) ==
    request("retrieve", [reference |-> reference, columns |-> columns], "GET",
            build_retrieve_url(self, reference.entity_name, reference.entity_id, columns))

retrieve_multiple(self, columns, query) ==
    request("retrieve_multiple", [query |-> query, columns |-> columns], "GET",
            build_query_url(self, columns, query))

NO_NEXT_PAGE == "There is no next page to retrieve"

\* a continuation that asks for the token before it looks at the cursor
retrieve_next_page_unchecked(self, previous_page) ==
    request("retrieve_next_page", previous_page, "GET",
            IF previous_page.next_link.some THEN previous_page.next_link.value ELSE "")

\* a continuation that takes the cursor for a path below the client's base URL
retrieve_next_page_rebased(self, previous_page) ==
    IF ~previous_page.next_link.some
    THEN [pc |-> "done", op |-> "retrieve_next_page", arg |-> previous_page,
          method |-> "GET", url |-> None, steps |-> <<>>, token |-> None,
          request |-> None, response |-> None,
          result |-> Some(DataverseError_new("NoNextPage", NO_NEXT_PAGE))]
    ELSE request("retrieve_next_page", previous_page, "GET",
                 build_simple_url(self, previous_page.next_link.value))

retrieve_next_page(self, previous_page) ==
    IF ~previous_page.next_link.some
    THEN [pc |-> "done", op |-> "retrieve_next_page", arg |-> previous_page,
          method |-> "GET", url |-> None, steps |-> <<>>, token |-> None,
          request |-> None, response |-> None,
          result |-> Some(DataverseError_new("NoNextPage", NO_NEXT_PAGE))]
    ELSE request("retrieve_next_page", previous_page, "GET",
                 previous_page.next_link.value)

execute(self, batch) ==
    request("execute", batch, "POST", build_simple_url(self, "$batch"))

\* a merge that turns away the entity names the platform does not merge
merge_checked(self, entity_name, target, subordinate) ==
    IF entity_name \notin {"account", "contact", "lead", "incident"}
    THEN [pc |-> "done", op |-> "merge",
          arg |-> [entity_name |-> entity_name, target |-> target,
                   subordinate |-> subordinate],
          method |-> "POST", url |-> None, steps |-> <<>>, token |-> None,
          request |-> None, response |-> None,
          result |-> Some(DataverseError_new("ServerError", "unsupported entity"))]
    ELSE request("merge",
                 [entity_name |-> entity_name, target |-> target,
                  subordinate |-> subordinate],
                 "POST", build_simple_url(self, "Merge"))

merge(self, entity_name, target, subordinate) ==
    request("merge",
            [entity_name |-> entity_name, target |-> target, subordinate |-> subordinate],
            "POST", build_simple_url(self, "Merge"))


(***************************************************************************)
(* The environment: the authentication capability, the transport and the   *)
(* platform behind it.                                                     *)
(***************************************************************************)
\* Authenticate::get_valid_token: NoAuth always fails
TokenOutcomes(auth) ==
    {DataverseError_new("AuthenticationError", "no token")}
        \cup (IF auth = "NoAuth" THEN {} ELSE {Ok("tokenA"), Ok("tokenB")})

Response(status, entity_id, content) ==
    [status |-> status, entity_id |-> entity_id, body |-> content]

Chars_contacts == <<"c", "o", "n", "t", "a", "c", "t", "s", "(">>

\* text put before an embedded UUID
Prefixes ==
    { <<>>, Chars_contacts, <<"m", "y", "-", "o", "r", "g", "/">>, <<OpaqueByte>>,
      \* hex digits and hyphens that begin a match of their own
      Rep("a", 8) \o <<"-">> \o Rep("b", 4) \o <<"-">> \o Rep("c", 4) \o <<"-">>
          \o Rep("d", 4) \o <<"-">> \o Rep("e", 4) }
        \cup { Rep("a", n) : n \in 1..MaxPad }

\* text put after an embedded UUID
Suffixes == { <<>>, <<")">>, <<"-", "0", "0", "0", "0">> } \cup { Rep("f", n) : n \in 1..MaxPad }

\* canonical texts of UUIDs, in either case of digit
UuidTexts == { HyphenatedChars(Id1), UpperChars(Id2) }

Embed(prefix, uuid_text, suffix) == prefix \o uuid_text \o suffix

EmbeddingHeaders ==
    { Embed(p, u, s) : p \in Prefixes, u \in UuidTexts, s \in Suffixes }

\* header values that hold no match of the pattern
PatternlessHeaders ==
    { <<>>, Chars_contacts \o <<")">>,
      SubSeq(HyphenatedChars(Id1), 1, UuidTextLen - 1),
      Rep("1", 8) \o Rep("2", 4) \o Rep("3", 4) \o Rep("4", 4) \o Rep("5", 12),
      Rep("1", 8) \o <<"-">> \o Rep("2", 4) \o <<"-">> \o Rep("3", 4) \o <<"-">>
          \o Rep("4", 4) \o <<"-">> \o Rep("g", 12) }

JsonString(text) == [type |-> "string", text |-> text]
JsonNull == [type |-> "null"]
JsonArray(items) == [type |-> "array", items |-> items]
JsonObject(fields) == [type |-> "object", fields |-> fields]
JsonEntity(id) == JsonObject("id" :> id)

\* the envelope of a query response, with and without a continuation link
Envelope(items, link) ==
    IF link.some
    THEN JsonBody("{\"value\":[..],\"@odata.nextLink\":..}",
                  "value" :> JsonArray(items) @@ "@odata.nextLink" :> link.value)
    ELSE JsonBody("{\"value\":[..]}", "value" :> JsonArray(items))

LinkA == "https://instance.crm.dynamics.com/api/data/v9.2/contacts?$skiptoken=A"
LinkB == "https://other.host/next?page=B"

JsonBodies ==
    { Envelope(items, link) :
        items \in { <<>>, <<JsonEntity(1), JsonEntity(2)>> },
        link \in { None, Some(JsonNull), Some(JsonString(LinkA)), Some(JsonString(LinkB)) } }
      \cup { JsonBody("{\"id\":7}", "id" :> 7),
             JsonBody("{\"value\":[{}]}", "value" :> JsonArray(<<JsonObject("x" :> 1)>>)),
             JsonBody("{\"value\":[],\"@odata.nextLink\":5}",
                      "value" :> JsonArray(<<>>) @@ "@odata.nextLink" :> [type |-> "number"]) }

\* what the transport may deliver for a request
Responses ==
    { Response(st, None, b) :
        st \in {400, 404, 499, 500, 599},
        b \in {TextBody("{\"error\":{\"message\":\"failed\"}}"), UnreadableBody} }
      \cup { Response(400, Some(HyphenatedChars(Id1)), TextBody(NO_UUID)) }
      \cup { Response(st, None, TextBody("batch: 1 of 2 operations failed")) :
               st \in {200, 399, 600} }
      \cup { Response(204, Some(h), TextBody("")) :
               h \in EmbeddingHeaders \cup PatternlessHeaders }
      \cup { Response(200, None, b) : b \in JsonBodies \cup {UnreadableBody} }

\* reqwest's send: an error, or a response
SendOutcomes ==
    { into_dataverse_result("reqwest", "error sending request") }
        \cup { Ok(r) : r \in Responses }


(***************************************************************************)
(* The platform's server-driven paging: a query's records are served in    *)
(* order, page_size at a time, each page but the last with a continuation  *)
(* link that names where the next page starts.                             *)
(***************************************************************************)
Platforms ==
    { [records |-> [i \in 1..n |-> JsonEntity(i)], page_size |-> p] :
        n \in 0..MaxRecords, p \in 1..MaxPageSize }

CursorUrl(served) ==
    "https://instance.crm.dynamics.com/api/data/v9.2/contacts?$skiptoken=" \o ToString(served)

\* how many records the pages before the requested one held
ServedBefore(pf, url) ==
    IF \E k \in 1..Len(pf.records) : CursorUrl(k) = url
    THEN CHOOSE k \in 1..Len(pf.records) : CursorUrl(k) = url
    ELSE 0

Min(a, b) == IF a <= b THEN a ELSE b

PlatformResponse(pf, req) ==
    LET from == ServedBefore(pf, req.url)
        upto == Min(from + pf.page_size, Len(pf.records))
        items == SubSeq(pf.records, from + 1, upto)
    IN  Response(200, None,
                 Envelope(items,
                          IF upto < Len(pf.records)
                          THEN Some(JsonString(CursorUrl(upto)))
                          ELSE None))

(***************************************************************************)
(* State.                                                                  *)
(*   client    the Client handle                                           *)
(*   calls     the calls of the client's operations, by caller             *)
(*   held      the Pages the caller holds, oldest first                    *)
(*   platform  the records the platform holds for the caller's query       *)
(***************************************************************************)
VARIABLES client, calls, held, platform

vars == <<client, calls, held, platform>>

Callers == {1}

Init ==
    /\ client \in Clients
    /\ calls = [c \in Callers |-> Idle]
    /\ held = <<>>
    /\ platform = [records |-> <<>>, page_size |-> 1]

Invoke(c, call) ==
    /\ calls[c].pc = "idle"
    /\ calls' = [calls EXCEPT ![c] = call]
    /\ UNCHANGED <<client, held, platform>>

Create(c) == \E entity \in WriteEntities : Invoke(c, create(client, entity))

Update(c) == \E entity \in WriteEntities : Invoke(c, update(client, entity))

Upsert(c) == \E entity \in WriteEntities : Invoke(c, upsert(client, entity))

Delete(c) == \E reference \in References : Invoke(c, delete(client, reference))

Retrieve(c) ==
    \E columns \in ColumnLists, reference \in References :
        Invoke(c, retrieve(client, columns, reference))

RetrieveMultiple(c) ==
    \E columns \in ColumnLists, query \in Queries :
        Invoke(c, retrieve_multiple(client, columns, query))

\* a Page is only made by the client, so the caller passes one it holds
RetrieveNextPage(c) ==
    \E i \in 1..Len(held) : Invoke(c, retrieve_next_page(client, held[i]))

Execute(c) == \E batch \in Batches : Invoke(c, execute(client, batch))

Merge(c) ==
    \E entity_name \in MergeEntityNames :
        Invoke(c, merge(client, entity_name, Id1, Id2))

\* a pipeline that keeps the request under construction in the handle: the
\* newest request replaces the one of every call still waiting for send
TokenResolved_shared_builder(c) ==
    /\ calls[c].pc = "token"
    /\ \E token \in TokenOutcomes(client.auth) :
          LET mine == request_after_token(client, calls[c], token)
          IN  calls' = [d \in DOMAIN calls |->
                           IF d = c THEN mine
                           ELSE IF calls[d].pc = "sent" /\ mine.request.some
                                THEN [calls[d] EXCEPT !.request = mine.request]
                                ELSE calls[d]]
    /\ UNCHANGED <<client, held, platform>>

\* get_valid_token resolves; the call runs on to send, or returns
TokenResolved(c) ==
    /\ calls[c].pc = "token"
    /\ \E token \in TokenOutcomes(client.auth) :
          calls' = [calls EXCEPT ![c] = request_after_token(client, calls[c], token)]
    /\ UNCHANGED <<client, held, platform>>

\* send resolves with any outcome of the transport; the call returns
SendResolved(c) ==
    /\ calls[c].pc = "sent"
    /\ \E sent \in SendOutcomes :
          calls' = [calls EXCEPT ![c] = request_after_send(calls[c], sent)]
    /\ UNCHANGED <<client, held, platform>>

IsPageResult(call) ==
    /\ call.op \in {"retrieve_multiple", "retrieve_next_page"}
    /\ call.result.value.ok

\* the caller takes the result; a Page replaces the one it held
Return(c) ==
    /\ calls[c].pc = "done"
    /\ calls' = [calls EXCEPT ![c] = Idle]
    /\ held' = IF IsPageResult(calls[c]) THEN <<calls[c].result.value.value>> ELSE held
    /\ UNCHANGED <<client, platform>>

Next ==
    \E c \in Callers :
        \/ Create(c) \/ Update(c) \/ Upsert(c) \/ Delete(c)
        \/ Retrieve(c) \/ RetrieveMultiple(c) \/ RetrieveNextPage(c)
        \/ Execute(c) \/ Merge(c)
        \/ TokenResolved(c) \/ SendResolved(c) \/ Return(c)

Spec == Init /\ [][Next]_vars


(***************************************************************************)
(* Paging to exhaustion: the caller runs retrieve_multiple and then        *)
(* retrieve_next_page on the latest Page while it is incomplete, keeping   *)
(* every Page, and every call succeeds: the token is granted and the       *)
(* platform answers the request that was sent.                             *)
(***************************************************************************)
InitPaging ==
    /\ client \in {cl \in Clients : cl.auth # "NoAuth"}
    /\ calls = [c \in Callers |-> Idle]
    /\ held = <<>>
    /\ platform \in Platforms

StartQuery(c) ==
    /\ held = <<>>
    /\ RetrieveMultiple(c)

ContinueQuery(c) ==
    /\ held # <<>>
    /\ is_incomplete(held[Len(held)])
    /\ Invoke(c, retrieve_next_page(client, held[Len(held)]))

TokenGranted(c) ==
    /\ calls[c].pc = "token"
    /\ \E token \in {t \in TokenOutcomes(client.auth) : t.ok} :
          calls' = [calls EXCEPT ![c] = request_after_token(client, calls[c], token)]
    /\ UNCHANGED <<client, held, platform>>

PlatformAnswers(c) ==
    /\ calls[c].pc = "sent"
    /\ calls' = [calls EXCEPT ![c] =
                    request_after_send(calls[c],
                        Ok(PlatformResponse(platform, calls[c].request.value)))]
    /\ UNCHANGED <<client, held, platform>>

\* the caller adds the returned Page to those it keeps
Collect(c) ==
    /\ calls[c].pc = "done"
    /\ IsPageResult(calls[c])
    /\ calls' = [calls EXCEPT ![c] = Idle]
    /\ held' = Append(held, calls[c].result.value.value)
    /\ UNCHANGED <<client, platform>>

NextPaging ==
    \E c \in Callers :
        \/ StartQuery(c) \/ ContinueQuery(c)
        \/ TokenGranted(c) \/ PlatformAnswers(c) \/ Collect(c)

\* the caller keeps calling and every await resolves
PagingSpec == InitPaging /\ [][NextPaging]_vars /\ WF_vars(NextPaging)


(***************************************************************************)
(* Concurrent use: two callers share one client (&self) and issue their    *)
(* operations in any interleaving.  The inputs are a part of those of Spec.*)
(***************************************************************************)
ConcCallers == {1, 2}

ConcReference == ReferenceStruct_new("contacts", Id1)

ConcColumns == <<"name">>

ConcQuery == "contacts?$top=2"

ConcBatch == [batch_id |-> "b1", text |-> "--batch_b1 (1 operation)", operations |-> 1]

\* send's outcomes: an error, a no-content answer naming a record, a failure
\* status, a page with a continuation link and a last page
ConcSendOutcomes ==
    { into_dataverse_result("reqwest", "error sending request"),
      Ok(Response(204, Some(HyphenatedChars(Id1)), TextBody(""))),
      Ok(Response(400, None, TextBody("{\"error\":{\"message\":\"failed\"}}"))),
      Ok(Response(200, None,
                  Envelope(<<JsonEntity(1), JsonEntity(2)>>, Some(JsonString(LinkA))))),
      Ok(Response(200, None, Envelope(<<>>, None))) }

InitConc ==
    /\ client \in Clients
    /\ calls = [c \in ConcCallers |-> Idle]
    /\ held = <<>>
    /\ platform = [records |-> <<>>, page_size |-> 1]

ConcCreate(c) == \E entity \in WriteEntities : Invoke(c, create(client, entity))

ConcUpdate(c) == \E entity \in WriteEntities : Invoke(c, update(client, entity))

ConcUpsert(c) == \E entity \in WriteEntities : Invoke(c, upsert(client, entity))

ConcDelete(c) == Invoke(c, delete(client, ConcReference))

ConcRetrieve(c) == Invoke(c, retrieve(client, ConcColumns, ConcReference))

ConcRetrieveMultiple(c) == Invoke(c, retrieve_multiple(client, ConcColumns, ConcQuery))

ConcExecute(c) == Invoke(c, execute(client, ConcBatch))

ConcMerge(c) == Invoke(c, merge(client, "account", Id1, Id2))

ConcSendResolved(c) ==
    /\ calls[c].pc = "sent"
    /\ \E sent \in ConcSendOutcomes :
          calls' = [calls EXCEPT ![c] = request_after_send(calls[c], sent)]
    /\ UNCHANGED <<client, held, platform>>

NextConc ==
    \E c \in ConcCallers :
        \/ ConcCreate(c) \/ ConcUpdate(c) \/ ConcUpsert(c) \/ ConcDelete(c)
        \/ ConcRetrieve(c) \/ ConcRetrieveMultiple(c) \/ RetrieveNextPage(c)
        \/ ConcExecute(c) \/ ConcMerge(c)
        \/ TokenResolved(c) \/ ConcSendResolved(c) \/ Return(c)

ConcSpec == InitConc /\ [][NextConc]_vars

(***************************************************************************)
(* Properties.                                                             *)
(***************************************************************************)
Active(c) == calls[c].pc # "idle"
Done(c) == calls[c].pc = "done"
Answered(c) == Done(c) /\ calls[c].response.some
Ran(c, step) == \E i \in 1..Len(calls[c].steps) : calls[c].steps[i] = step
Count(c, step) == Cardinality({i \in 1..Len(calls[c].steps) : calls[c].steps[i] = step})
Pos(c, step) == CHOOSE i \in 1..Len(calls[c].steps) : calls[c].steps[i] = step
Kind(c) == IF calls[c].result.value.ok THEN "Ok" ELSE calls[c].result.value.kind

\* the message the specification gives a ServerError
BodyTextOrFallback(response) ==
    IF response.body.readable
    THEN response.body.text
    ELSE "no error details provided from server"

IsServerError(result, response) ==
    /\ ~result.ok
    /\ result.kind = "ServerError"
    /\ result.message = BodyTextOrFallback(response)

\* C1 as stated: whatever the operation, a response with status >= 400 yields
\* ServerError carrying the body text or the fallback message, never success.
C1_Status400AndAbove ==
    \A c \in Callers :
        Answered(c) /\ calls[c].response.value.status >= 400
            => IsServerError(calls[c].result.value, calls[c].response.value)

\* C1 amended: whatever the operation, a response with a status in the 4xx or
\* 5xx range (400..599) yields ServerError carrying the body text or the
\* fallback message, never success.
C1_Status4xx5xx ==
    \A c \in Callers :
        Answered(c) /\ calls[c].response.value.status \in 400..599
            => IsServerError(calls[c].result.value, calls[c].response.value)

C1_Witness ==
    \E c \in Callers :
        /\ Answered(c)
        /\ calls[c].op = "execute"
        /\ calls[c].response.value.status = 599
        /\ ~calls[c].response.value.body.readable
        /\ IsServerError(calls[c].result.value, calls[c].response.value)

\* C2: retrieve_next_page on a Page without a cursor fails with NoNextPage
\* before a token is acquired and before a request is sent.
C2_NoNextPage ==
    \A c \in Callers :
        Active(c) /\ calls[c].op = "retrieve_next_page" /\ ~is_incomplete(calls[c].arg)
            => /\ Done(c)
               /\ ~calls[c].result.value.ok
               /\ calls[c].result.value.kind = "NoNextPage"
               /\ calls[c].result.value.message = "There is no next page to retrieve"
               /\ calls[c].steps = <<>>
               /\ ~calls[c].token.some
               /\ ~calls[c].request.some

C2_Witness ==
    \E c \in Callers :
        /\ Done(c)
        /\ calls[c].op = "retrieve_next_page"
        /\ ~is_incomplete(calls[c].arg)
        /\ calls[c].result.value.kind = "NoNextPage"

\* C3: the one GET request retrieve_next_page sends goes to the stored cursor,
\* character for character.
C3_CursorVerbatim ==
    \A c \in Callers :
        Active(c) /\ calls[c].op = "retrieve_next_page" /\ calls[c].request.some
            => /\ calls[c].request.value.method = "GET"
               /\ calls[c].request.value.url = calls[c].arg.next_link.value
               /\ Count(c, "send") = 1

C3_Witness ==
    \E c \in Callers :
        /\ Active(c)
        /\ calls[c].op = "retrieve_next_page"
        /\ calls[c].request.some
        /\ calls[c].arg.next_link = Some(LinkB)
        /\ calls[c].request.value.url = LinkB

\* the continuation link a response envelope carries, if it carries one
CarriesLink(response) ==
    /\ "@odata.nextLink" \in DOMAIN response.body.json.fields
    /\ response.body.json.fields["@odata.nextLink"].type = "string"

\* C4: a Page returned by retrieve_multiple or retrieve_next_page has a cursor
\* exactly when the response envelope carried a continuation link, and the
\* cursor is that link, whatever the previous page held.
C4_CursorIffLink ==
    \A c \in Callers :
        Done(c) /\ IsPageResult(calls[c])
            => LET page == calls[c].result.value.value
                   response == calls[c].response.value
               IN  /\ is_incomplete(page) <=> CarriesLink(response)
                   /\ CarriesLink(response) =>
                        page.next_link
                            = Some(response.body.json.fields["@odata.nextLink"].text)

C4_Witness ==
    \E c \in Callers :
        /\ Done(c)
        /\ IsPageResult(calls[c])
        /\ calls[c].op = "retrieve_next_page"
        /\ is_incomplete(calls[c].arg)
        /\ ~CarriesLink(calls[c].response.value)
        /\ ~is_incomplete(calls[c].result.value.value)


RECURSIVE Flatten(_)
Flatten(pages) ==
    IF pages = <<>> THEN <<>> ELSE Head(pages).entities \o Flatten(Tail(pages))

Exhausted == held # <<>> /\ ~is_incomplete(held[Len(held)])

NoIdRepeated(entities) ==
    \A i, j \in 1..Len(entities) : i # j => entities[i].id # entities[j].id

FullResultSet == [i \in 1..Len(platform.records) |-> [id |-> platform.records[i].fields["id"]]]

\* C5: paging from retrieve_multiple with retrieve_next_page while the latest
\* Page is incomplete, every call succeeding: no id is repeated across the
\* pages, a Page without a cursor is eventually reached, and the pages then
\* concatenate to the platform's full result set.
C5_PagingExhausts ==
    /\ [](NoIdRepeated(Flatten(held)) /\ (Exhausted => Flatten(held) = FullResultSet))
    /\ <>Exhausted

C5_Witness ==
    /\ Exhausted
    /\ Len(held) >= 2
    /\ Len(held[1].entities) >= 1
    /\ Flatten(held) = FullResultSet


\* the UUIDs embedded in the header values, each with the text embedded
EmbeddedUuids ==
    { [id |-> Id1, text |-> HyphenatedChars(Id1)], [id |-> Id2, text |-> UpperChars(Id2)] }

\* create was answered with a status outside 4xx/5xx
CreateSucceeded(c) ==
    /\ Answered(c)
    /\ calls[c].op = "create"
    /\ calls[c].response.value.status \notin 400..599

\* the header value is text: every byte is visible ASCII
ReadableAsText(value) == \A i \in 1..Len(value) : value[i] # OpaqueByte

HexDigits ==
    {"0","1","2","3","4","5","6","7","8","9",
     "a","b","c","d","e","f","A","B","C","D","E","F"}

\* eight hex digits directly followed by a hyphen, somewhere in the text
HasEightHexThenHyphen(text) ==
    \E i \in 1..Len(text) :
        /\ i + 8 <= Len(text)
        /\ \A k \in 0..7 : text[i + k] \in HexDigits
        /\ text[i + 8] = "-"

\* C6 as stated: a header value that embeds one canonical UUID in any
\* surrounding text, hex digits and hyphens included, makes a successful
\* create return exactly that UUID.
C6_AnySurroundingText ==
    \A c \in Callers :
        CreateSucceeded(c) /\ calls[c].response.value.entity_id.some =>
            \A prefix \in Prefixes, uuid \in EmbeddedUuids, suffix \in Suffixes :
                /\ calls[c].response.value.entity_id.value = Embed(prefix, uuid.text, suffix)
                /\ ReadableAsText(prefix \o suffix)
                => calls[c].result.value = Ok(uuid.id)

\* C6 amended: a header value readable as text that embeds one canonical UUID,
\* where the text before the UUID holds no eight hex digits directly followed
\* by a hyphen and the text after it is arbitrary, makes a successful create
\* return exactly that UUID.
C6_EmbeddedUuid ==
    \A c \in Callers :
        CreateSucceeded(c) /\ calls[c].response.value.entity_id.some =>
            \A prefix \in Prefixes, uuid \in EmbeddedUuids, suffix \in Suffixes :
                /\ calls[c].response.value.entity_id.value = Embed(prefix, uuid.text, suffix)
                /\ ReadableAsText(prefix \o suffix)
                /\ ~HasEightHexThenHyphen(prefix)
                => calls[c].result.value = Ok(uuid.id)

C6_Witness ==
    \E c \in Callers :
        /\ CreateSucceeded(c)
        /\ calls[c].response.value.entity_id
              = Some(Embed(Rep("a", 1), UpperChars(Id2), <<"-", "0", "0", "0", "0">>))
        /\ calls[c].result.value = Ok(Id2)

\* C7: create fails with ProtocolViolation, and returns no UUID, when the
\* status is a success but the confirmation header is absent, is not readable
\* as text, or holds no 8-4-4-4-12 pattern.
C7_NoIdentifier ==
    \A c \in Callers :
        /\ CreateSucceeded(c)
        /\ \/ ~calls[c].response.value.entity_id.some
           \/ ~ReadableAsText(calls[c].response.value.entity_id.value)
           \/ calls[c].response.value.entity_id.value \in PatternlessHeaders
        => /\ ~calls[c].result.value.ok
           /\ calls[c].result.value.kind = "ProtocolViolation"
           /\ calls[c].result.value.message = "Dataverse provided no Uuid"

C7_Witness ==
    \E c \in Callers :
        /\ CreateSucceeded(c)
        /\ calls[c].response.value.entity_id.some
        /\ ~ReadableAsText(calls[c].response.value.entity_id.value)
        /\ calls[c].result.value.kind = "ProtocolViolation"


\* the call entered the pipeline (Client::request)
Dispatched(c) == Active(c) /\ calls[c].url.some

EncodingFails(c) ==
    calls[c].op \in {"create", "update", "upsert"} /\ ~calls[c].arg.serialisable

ExtractionOrDecoding == {"header", "find", "parse", "bytes", "decode"}

\* C8: a call reports the first failing step of its pipeline and runs no later
\* step: token failure gives AuthenticationError and no request; else encoding
\* failure gives EncodingError and no request; else transport failure gives
\* TransportError and no interpretation; else a 4xx/5xx status gives
\* ServerError and no extraction or decoding; only after all these can
\* ProtocolViolation or DecodingError be returned.
C8_FirstFailure ==
    \A c \in Callers :
        Done(c) /\ Dispatched(c) =>
            /\ IF ~calls[c].token.some
               THEN /\ Kind(c) = "AuthenticationError"
                    /\ ~calls[c].request.some
                    /\ calls[c].steps = <<"token">>
               ELSE IF EncodingFails(c)
               THEN /\ Kind(c) = "EncodingError"
                    /\ ~calls[c].request.some
                    /\ ~Ran(c, "send")
               ELSE IF ~calls[c].response.some
               THEN /\ Kind(c) = "TransportError"
                    /\ calls[c].request.some
                    /\ ~Ran(c, "interpret")
               ELSE IF calls[c].response.value.status \in 400..599
               THEN /\ Kind(c) = "ServerError"
                    /\ \A step \in ExtractionOrDecoding : ~Ran(c, step)
               ELSE Kind(c) \in {"Ok", "ProtocolViolation", "DecodingError", "TransportError"}
            /\ Kind(c) \in {"ProtocolViolation", "DecodingError"} =>
                  /\ calls[c].token.some
                  /\ ~EncodingFails(c)
                  /\ calls[c].response.some
                  /\ calls[c].response.value.status \notin 400..599

C8_Witness ==
    \E c \in Callers :
        /\ Done(c)
        /\ calls[c].op = "update"
        /\ calls[c].token.some
        /\ EncodingFails(c)
        /\ Kind(c) = "EncodingError"
        /\ ~calls[c].request.some

\* C9: one call of an operation acquires a token at most once and sends at
\* most one request; a call that failed has returned its failure and runs on
\* to no further token acquisition or request.
C9_NoRetry ==
    \A c \in Callers :
        Active(c) =>
            /\ Count(c, "token") <= 1
            /\ Count(c, "send") <= 1
            /\ Ran(c, "token") /\ ~calls[c].token.some => Done(c) /\ ~calls[c].result.value.ok
            /\ Ran(c, "send") /\ calls[c].pc # "sent" => Done(c)

C9_Witness ==
    \E c \in Callers :
        /\ Done(c)
        /\ Kind(c) = "TransportError"
        /\ ~calls[c].response.some
        /\ Count(c, "token") = 1
        /\ Count(c, "send") = 1

\* C10 as stated: the steps of a dispatch run in the order token, base request
\* with the fixed headers and the bearer token, prepare, send, interpret.
C10_HeadersThenPrepare ==
    \A c \in Callers :
        Active(c) /\ Ran(c, "send") =>
            /\ Pos(c, "token") < Pos(c, "headers")
            /\ Pos(c, "headers") < Pos(c, "prepare")
            /\ Pos(c, "prepare") < Pos(c, "send")
            /\ Ran(c, "interpret") => Pos(c, "send") < Pos(c, "interpret")

FixedHeaderNames == <<"Authorization", "OData-MaxVersion", "OData-Version", "Accept">>

\* C10 amended: the steps of a dispatch run in the order token, bare request
\* from method and URL, prepare, fixed headers and bearer token, send,
\* interpret: prepare runs after the token is obtained and before the fixed
\* headers are attached, so the fixed headers are the last four of the request.
C10_PrepareThenHeaders ==
    \A c \in Callers :
        Active(c) /\ Ran(c, "send") =>
            /\ SubSeq(calls[c].steps, 1, 5) = <<"token", "build", "prepare", "headers", "send">>
            /\ Ran(c, "interpret") => Pos(c, "interpret") = 6
            /\ LET sent == calls[c].request.value.headers
                   n == Len(sent)
               IN  /\ n >= 4
                   /\ [i \in 1..4 |-> sent[n - 4 + i][1]] = FixedHeaderNames

C10_Witness ==
    \E c \in Callers :
        /\ Done(c)
        /\ calls[c].op = "update"
        /\ Ran(c, "interpret")
        /\ Len(calls[c].request.value.headers) = 6
        /\ calls[c].request.value.headers[1][1] = "Content-Type"
        /\ calls[c].request.value.headers[3][1] = "Authorization"


\* how often the request of a call carries the header with this name and value
Carries(c, name, value) ==
    Cardinality({i \in 1..Len(calls[c].request.value.headers) :
                    calls[c].request.value.headers[i] = <<name, value>>})

\* how often the request of a call carries a header with this name
CarriesNamed(c, name) ==
    Cardinality({i \in 1..Len(calls[c].request.value.headers) :
                    calls[c].request.value.headers[i][1] = name})

\* C11: every request an operation sends, the retrieve_next_page request to the
\* cursor URL included, carries the four standard headers: bearer authorization
\* with the token just obtained, OData-MaxVersion 4.0, OData-Version 4.0 and
\* Accept application/json.
C11_StandardHeaders ==
    \A c \in Callers :
        Active(c) /\ calls[c].request.some =>
            /\ calls[c].token.some
            /\ Carries(c, "Authorization", "Bearer " \o calls[c].token.value) = 1
            /\ CarriesNamed(c, "Authorization") = 1
            /\ Carries(c, "OData-MaxVersion", "4.0") = 1
            /\ Carries(c, "OData-Version", "4.0") = 1
            /\ Carries(c, "Accept", "application/json") = 1

C11_Witness ==
    \E c \in Callers :
        /\ Active(c)
        /\ calls[c].op = "retrieve_next_page"
        /\ calls[c].request.some
        /\ calls[c].request.value.url = LinkB
        /\ calls[c].token = Some("tokenB")
        /\ Carries(c, "Authorization", "Bearer tokenB") = 1
        /\ Carries(c, "OData-Version", "4.0") = 1


\* the base URLs that end in a slash
SlashTerminated == {"https://instance.crm.dynamics.com/"}

\* the base URL and a path below it, one slash between the two
SlashJoined(base, path) ==
    IF base \in SlashTerminated THEN base \o path ELSE base \o "/" \o path

\* the canonical hyphenated text of the ids the callers use
CanonicalText(id) ==
    IF id = Id1 THEN "11111111-2222-3333-4444-555555555555"
    ELSE "aaaaaaaa-bbbb-cccc-dddd-eeeeeeeeeeee"

\* the collection and id a write or delete call names
ReferenceOf(c) ==
    IF calls[c].op = "delete" THEN calls[c].arg ELSE calls[c].arg.reference

\* the collection a call to simple(..) names
CollectionOf(c) ==
    CASE calls[c].op = "create"  -> calls[c].arg.reference.entity_name
      [] calls[c].op = "execute" -> "$batch"
      [] calls[c].op = "merge"   -> "Merge"

\* C13 as stated: simple(collection) is {base}/api/data/v{VERSION}/{collection}
\* with a slash separating the base from api, for every base URL;
\* targeted(collection, id) is that followed by the hyphenated id in
\* parentheses; create, execute and merge use simple, update, upsert and
\* delete use targeted.
C13_SlashSeparated ==
    \A c \in Callers :
        Dispatched(c) =>
            /\ calls[c].op \in {"create", "execute", "merge"} =>
                  calls[c].url.value
                      = SlashJoined(client.url, "api/data/v9.2/" \o CollectionOf(c))
            /\ calls[c].op \in {"update", "upsert", "delete"} =>
                  calls[c].url.value
                      = SlashJoined(client.url, "api/data/v9.2/" \o ReferenceOf(c).entity_name)
                          \o "(" \o CanonicalText(ReferenceOf(c).entity_id) \o ")"

\* What the builders compute instead: the base URL as given, directly followed
\* by api/data/v{VERSION}/{collection}, no slash inserted; a base URL that does
\* not end in a slash runs into "api". The rest of C13 is as stated: targeted
\* adds the hyphenated id in parentheses; create, execute and merge use simple,
\* update, upsert and delete use targeted, in the request sent too.
C13_BaseVerbatim ==
    \A c \in Callers :
        Dispatched(c) =>
            /\ calls[c].op \in {"create", "execute", "merge"} =>
                  calls[c].url.value = client.url \o "api/data/v9.2/" \o CollectionOf(c)
            /\ calls[c].op \in {"update", "upsert", "delete"} =>
                  calls[c].url.value
                      = client.url \o "api/data/v9.2/" \o ReferenceOf(c).entity_name
                          \o "(" \o CanonicalText(ReferenceOf(c).entity_id) \o ")"
            /\ calls[c].request.some /\ calls[c].op # "retrieve_next_page" =>
                  calls[c].request.value.url = calls[c].url.value

C13_Witness ==
    \E c \in Callers :
        /\ Dispatched(c)
        /\ calls[c].op = "update"
        /\ calls[c].request.some
        /\ calls[c].request.value.url
              = "https://instance.crm.dynamics.com/api/data/v9.2/accounts(aaaaaaaa-bbbb-cccc-dddd-eeeeeeeeeeee)"


\* the columns with one comma between every two neighbours
CommaJoined(columns) ==
    Concat([i \in 1..(2 * Len(columns) - 1) |->
               IF i % 2 = 1 THEN columns[(i + 1) \div 2] ELSE ","])

\* C14: for every column list, retrieve's URL is targeted(collection, id)
\* followed by ?$select= and the columns joined by single commas in their
\* original order, repeated columns kept, no leading or trailing comma; the
\* URL of retrieve_multiple is the query's rendered fragment below
\* api/data/v{VERSION}/ followed by &$select= and the same join.
C14_SelectJoin ==
    \A c \in Callers :
        Dispatched(c) =>
            /\ calls[c].op = "retrieve" =>
                  calls[c].url.value
                      = client.url \o "api/data/v9.2/" \o calls[c].arg.reference.entity_name
                          \o "(" \o CanonicalText(calls[c].arg.reference.entity_id) \o ")"
                          \o "?$select=" \o CommaJoined(calls[c].arg.columns)
            /\ calls[c].op = "retrieve_multiple" =>
                  calls[c].url.value
                      = client.url \o "api/data/v9.2/" \o calls[c].arg.query
                          \o "&$select=" \o CommaJoined(calls[c].arg.columns)
            /\ calls[c].op \in {"retrieve", "retrieve_multiple"} /\ calls[c].request.some =>
                  calls[c].request.value.url = calls[c].url.value

C14_Witness ==
    \E c \in Callers :
        /\ Dispatched(c)
        /\ calls[c].op = "retrieve"
        /\ calls[c].arg.columns = <<"a", "b", "a">>
        /\ calls[c].request.some
        /\ calls[c].request.value.url
              = "https://instance.crm.dynamics.com/api/data/v9.2/contacts(11111111-2222-3333-4444-555555555555)?$select=a,b,a"


\* the response's status is in the 4xx or the 5xx range
ErrorStatus(response) == response.status \in 400..599

\* C15: merge does not check entity_name: for every entity name, supported or
\* not, the call goes to the token step, and once a token is obtained exactly
\* one POST to simple("Merge") is sent; a call that got its token fails only
\* with the transport's error or, on a 4xx/5xx answer, as ServerError.
C15_MergeUnchecked ==
    \A c \in Callers :
        Active(c) /\ calls[c].op = "merge" =>
            /\ calls[c].url = Some(client.url \o "api/data/v9.2/Merge")
            /\ Done(c) /\ ~calls[c].token.some =>
                  /\ calls[c].steps = <<"token">>
                  /\ Kind(c) = "AuthenticationError"
            /\ calls[c].token.some =>
                  /\ calls[c].request.some
                  /\ calls[c].request.value.method = "POST"
                  /\ calls[c].request.value.url = client.url \o "api/data/v9.2/Merge"
                  /\ Count(c, "send") = 1
            /\ Done(c) /\ calls[c].token.some /\ ~calls[c].result.value.ok =>
                  \/ ~calls[c].response.some /\ Kind(c) = "TransportError"
                  \/ /\ calls[c].response.some
                     /\ ErrorStatus(calls[c].response.value)
                     /\ IsServerError(calls[c].result.value, calls[c].response.value)

C15_Witness ==
    \E c \in Callers :
        /\ Done(c)
        /\ calls[c].op = "merge"
        /\ calls[c].arg.entity_name = "systemuser"
        /\ Count(c, "send") = 1
        /\ calls[c].response.some
        /\ calls[c].response.value.status = 400
        /\ Kind(c) = "ServerError"


\* the operations that return nothing on success
EmptyResultOps == {"update", "upsert", "delete", "execute", "merge"}

\* C16: execute sends the whole batch envelope in one POST to
\* simple("$batch") whatever the number of operations in it; update, upsert,
\* delete, execute and merge return success exactly when the response's
\* status is outside the 4xx and 5xx ranges, and on that path only the status
\* is looked at, never the body.
C16_OneRequestOneOutcome ==
    \A c \in Callers :
        /\ Active(c) /\ calls[c].op = "execute" /\ calls[c].token.some =>
              /\ calls[c].request.some
              /\ calls[c].request.value.method = "POST"
              /\ calls[c].request.value.url = client.url \o "api/data/v9.2/$batch"
              /\ calls[c].request.value.body = Bytes(calls[c].arg.text)
              /\ Carries(c, "Content-Type",
                         "multipart/mixed; boundary=batch_" \o calls[c].arg.batch_id) = 1
              /\ Count(c, "send") = 1
        /\ Answered(c) /\ calls[c].op \in EmptyResultOps =>
              /\ calls[c].result.value.ok <=> ~ErrorStatus(calls[c].response.value)
              /\ calls[c].result.value.ok =>
                    /\ calls[c].result.value = Ok(Unit)
                    /\ calls[c].steps
                          = <<"token", "build", "prepare", "headers", "send",
                              "interpret", "status">>

C16_Witness ==
    \E c \in Callers :
        /\ Answered(c)
        /\ calls[c].op = "execute"
        /\ calls[c].arg.operations = 1001
        /\ Count(c, "send") = 1
        /\ calls[c].response.value.status = 200
        /\ calls[c].response.value.body = TextBody("batch: 1 of 2 operations failed")
        /\ calls[c].result.value = Ok(Unit)


\* the inputs of the concurrent specification are inputs of Spec
ConcInputsWithinSpec ==
    /\ ConcSendOutcomes \subseteq SendOutcomes
    /\ ConcReference \in References
    /\ ConcColumns \in ColumnLists
    /\ ConcQuery \in Queries
    /\ ConcBatch \in Batches

IsIfMatch(h) == h[1] = "If-Match"
NotIfMatch(h) == h[1] # "If-Match"

\* C12: for the same entity (and the same token), the request update sends
\* and the request upsert sends are both PATCH, to the same targeted URL,
\* with a JSON content type and the same encoded body, and their headers are
\* the same but for update's one If-Match: *; upsert has no If-Match header.
C12_UpdateUpsertDifferByIfMatch ==
    \A c, d \in ConcCallers :
        /\ calls[c].pc # "idle" /\ calls[c].op = "update" /\ calls[c].request.some =>
              /\ calls[c].request.value.method = "PATCH"
              /\ SelectSeq(calls[c].request.value.headers, IsIfMatch) = << <<"If-Match", "*">> >>
              /\ Carries(c, "Content-Type", "application/json") = 1
              /\ calls[c].request.value.body = Bytes(calls[c].arg.json)
              /\ calls[c].request.value.url
                    = client.url \o "api/data/v9.2/" \o calls[c].arg.reference.entity_name
                        \o "(" \o CanonicalText(calls[c].arg.reference.entity_id) \o ")"
        /\ calls[d].pc # "idle" /\ calls[d].op = "upsert" /\ calls[d].request.some =>
              SelectSeq(calls[d].request.value.headers, IsIfMatch) = <<>>
        /\ /\ calls[c].pc # "idle" /\ calls[c].op = "update"
           /\ calls[d].pc # "idle" /\ calls[d].op = "upsert"
           /\ calls[c].arg = calls[d].arg
           /\ calls[c].token.some /\ calls[c].token = calls[d].token
           => /\ calls[c].request.some <=> calls[d].request.some
              /\ calls[c].request.some =>
                    /\ calls[c].request.value.method = calls[d].request.value.method
                    /\ calls[c].request.value.url = calls[d].request.value.url
                    /\ calls[c].request.value.body = calls[d].request.value.body
                    /\ SelectSeq(calls[c].request.value.headers, NotIfMatch)
                          = calls[d].request.value.headers

C12_Witness ==
    /\ calls[1].pc = "sent" /\ calls[1].op = "update"
    /\ calls[2].pc = "sent" /\ calls[2].op = "upsert"
    /\ calls[1].arg = calls[2].arg
    /\ calls[1].token = Some("tokenA") /\ calls[2].token = Some("tokenA")
    /\ Carries(1, "If-Match", "*") = 1
    /\ Carries(2, "Content-Type", "application/json") = 1
    /\ CarriesNamed(2, "If-Match") = 0

\* a step leaves the handle as it was
HandleUnchanged == client' = client

\* a step is one caller's: every other call is as it was
OthersUntouched ==
    \E c \in ConcCallers : \A d \in ConcCallers \ {c} : calls'[d] = calls[d]

\* two calls with the same operation, arguments and token send the same request
SameRequest ==
    \A c, d \in ConcCallers :
        /\ calls[c].pc # "idle" /\ calls[d].pc # "idle"
        /\ calls[c].op = calls[d].op /\ calls[c].arg = calls[d].arg
        /\ calls[c].token.some /\ calls[c].token = calls[d].token
        => calls[c].request = calls[d].request

\* two calls with the same operation, arguments, token and answer return the same
SameResult ==
    \A c, d \in ConcCallers :
        /\ calls[c].pc = "done" /\ calls[d].pc = "done"
        /\ calls[c].op = calls[d].op /\ calls[c].arg = calls[d].arg
        /\ calls[c].token = calls[d].token
        /\ calls[c].response = calls[d].response
        /\ Count(c, "send") = Count(d, "send")
        => calls[c].result = calls[d].result

\* C17: in any interleaving of two callers' operations, successful or failed,
\* no step changes the handle (base URL, transport, authentication), a step of
\* one call leaves the other call as it was, and the request a call sends and
\* the result it returns are those of any call with the same arguments, token
\* and response, whatever else is in flight or went before.
C17_CallsIndependent ==
    /\ [][HandleUnchanged /\ OthersUntouched]_vars
    /\ []SameRequest
    /\ []SameResult

C17_Witness ==
    /\ held # <<>>
    /\ calls[1].pc = "done" /\ calls[2].pc = "done"
    /\ calls[1].op = "update" /\ calls[2].op = "update"
    /\ calls[1].arg = calls[2].arg
    /\ calls[1].token = Some("tokenA") /\ calls[2].token = Some("tokenB")
    /\ calls[1].request # calls[2].request
    /\ calls[1].result.value.ok /\ ~calls[2].result.value.ok
    /\ calls[2].response.some

====
